---- MODULE Spec2Model ----
(***************************************************************************)
(* Model of the django-admin-smoke harness (admin_smoke/tests.py) driven   *)
(* against the sample application testproject.testapp.                     *)
(*                                                                         *)
(* Python dictionaries are functions from string keys to string values     *)
(* (the test client sends every value as text).  Database rows are         *)
(* records held in functions from primary key to row.  Datetimes are       *)
(* whole seconds.  Project.client holds the client id as text, None for    *)
(* NULL; Tag.content_type holds the name of the model the type stands for. *)
(***************************************************************************)
EXTENDS Integers, Sequences, FiniteSets, TLC

VARIABLES
    build,      \* which testproject.testapp package is importable
    testcase,   \* the TestCase class being run
    phase,      \* "idle" | "running" | "finished"
    clock,      \* the real wall clock
    now,        \* self.now
    now0,       \* the instant captured by TimeMixin.setUp
    active,     \* names of the mock patches currently applied
    started,    \* patches in the order setUp started them
    stopped,    \* patches in the order tearDown stopped them
    projects,   \* table testapp_project
    tasks,      \* table testapp_task
    tags,       \* table testapp_tag
    steps,      \* harness calls made by the running test method
    r,          \* outcome of the last harness call
    data,       \* form data dictionary handed to reset_inline_data
    args,       \* (prefix, related, pk) handed to reset_inline_data
    resp        \* response handed to get_errors_from_response

vars == <<build, testcase, phase, clock, now, now0, active, started, stopped,
          projects, tasks, tags, steps, r, data, args, resp>>

----------------------------------------------------------------------------
(* Bounds of the exploration.                                              *)

MaxClock == 1
MaxAdvance == 1
MaxSteps == 2
MaxSaved == 2
MaxErrForms == 2

----------------------------------------------------------------------------
(* Python values and dictionaries.                                         *)

None == "<None>"
True == "True"
False == "False"

EmptyDict == [k \in {} |-> ""]

\* F(e), with e evaluated once and handed to F as a value
With(e, F(_)) == CHOOSE y \in {F(x) : x \in {e}} : TRUE

\* the function f, with every value computed
Built(f) == f @@ EmptyDict

\* d.update(e): the keys of e win
Update(d, e) == e @@ d

\* del d[k] for every k of ks
Without(d, ks) == With(d, LAMBDA v : Built([k \in (DOMAIN v) \ ks |-> v[k]]))

\* d[k] = v
Assign(d, k, v) == (k :> v) @@ d

\* the decimal numerals the forms can carry (primary keys, form counts)
Numerals == {ToString(n) : n \in 0..999}

IsInt(s) == s \in Numerals

\* int(s)
StrToInt(s) == CHOOSE n \in 0..999 : ToString(n) = s

\* d.update(ds[1]); d.update(ds[2]); ... : the last writer of a key wins
UpdateAll(d0, ds0) ==
    With(<<d0, ds0>>, LAMBDA v :
        LET d == v[1]
            ds == v[2]
            writers(k) == {j \in 1..Len(ds) : k \in DOMAIN ds[j]}
        IN  Built([k \in (DOMAIN d) \cup UNION {DOMAIN ds[j] : j \in 1..Len(ds)} |->
                    IF writers(k) = {} THEN d[k]
                    ELSE ds[CHOOSE j \in writers(k) : \A i \in writers(k) : i <= j][k]]))

\* the elements of a set of integers in increasing order
Sorted(S0) ==
    With(S0, LAMBDA S :
        Built([i \in 1..Cardinality(S) |->
                CHOOSE x \in S : Cardinality({y \in S : y < x}) = i - 1]))

Max(S) == CHOOSE x \in S : \A y \in S : y <= x

----------------------------------------------------------------------------
(* The sample application: models and admin classes.                       *)

FixturePid == 123

\* InlineModelAdmin.extra, not overridden by TaskInline / TagInline
Extra == 3

\* formset max_num when the inline sets none
DefaultMaxNum == 1000

\* CharField(max_length=10) of Project.name and Task.name
NameMaxLength == 10

TaskPrefix == "task_set"
TagPrefix == "testapp-tag-content_type-object_id"

EmptyList == "[]"

\* values that are FieldFile instances
FieldFiles == {"FieldFile()", "FieldFile(txt.doc)", "FieldFile(doc.txt)"}

\* values that are uploaded files
Uploads == {"SimpleUploadedFile(txt.doc)", "SimpleUploadedFile(doc.txt)"}

\* the FieldFile stored once an upload is saved
Stored(u) ==
    IF u = "SimpleUploadedFile(txt.doc)" THEN "FieldFile(txt.doc)"
    ELSE "FieldFile(doc.txt)"

\* Project gains created / modified in the tests/ copy of the application
HasTimestamps == build = "tests"

\* model._meta.local_fields
LocalFields(model) ==
    CASE model = "project" ->
            <<[name |-> "pid", attname |-> "pid", primary_key |-> TRUE],
              [name |-> "name", attname |-> "name", primary_key |-> FALSE],
              [name |-> "client", attname |-> "client_id", primary_key |-> FALSE]>>
            \o (IF HasTimestamps
                THEN <<[name |-> "created", attname |-> "created", primary_key |-> FALSE],
                       [name |-> "modified", attname |-> "modified", primary_key |-> FALSE]>>
                ELSE <<>>)
      [] model = "task" ->
            <<[name |-> "id", attname |-> "id", primary_key |-> TRUE],
              [name |-> "project", attname |-> "project_id", primary_key |-> FALSE],
              [name |-> "name", attname |-> "name", primary_key |-> FALSE],
              [name |-> "attachment", attname |-> "attachment", primary_key |-> FALSE],
              [name |-> "visible", attname |-> "visible", primary_key |-> FALSE]>>
      [] model = "tag" ->
            <<[name |-> "tid", attname |-> "tid", primary_key |-> TRUE],
              [name |-> "name", attname |-> "name", primary_key |-> FALSE],
              [name |-> "content_type", attname |-> "content_type_id", primary_key |-> FALSE],
              [name |-> "object_id", attname |-> "object_id", primary_key |-> FALSE]>>
      [] OTHER -> <<>>

PkName(model) ==
    LET fs == LocalFields(model)
    IN  fs[CHOOSE i \in 1..Len(fs) : fs[i].primary_key].name

\* has_add_permission left at ModelAdmin's default for a superuser
has_add_permission_default(admin) == TRUE

\* the permissions TaskAdmin grants; ProjectAdmin overrides none
has_add_permission(admin) == ~(admin = "TaskAdmin" /\ build = "tests")
has_change_permission(admin) == ~(admin = "TaskAdmin" /\ build = "tests")
has_delete_permission(admin) == ~(admin = "TaskAdmin" /\ build = "tests")

\* ModelAdmin.list_editable
list_editable(admin) ==
    IF admin = "ProjectAdmin" /\ build = "tests" THEN {"name"} ELSE {}

\* ModelAdmin.inlines
inlines(admin) ==
    IF admin = "ProjectAdmin" THEN <<"TaskInline", "TagInline">> ELSE <<>>

InlinePrefix(inline) == IF inline = "TaskInline" THEN TaskPrefix ELSE TagPrefix
InlineModel(inline) == IF inline = "TaskInline" THEN "task" ELSE "tag"

\* names of the fields of the admin's main form
AdminFormFields(admin) ==
    CASE admin = "ProjectAdmin" ->
            IF build = "tests" THEN {"name", "members"}
            ELSE {"name", "client", "members"}
      [] admin = "TaskAdmin" ->
            IF has_change_permission(admin)
            THEN {"project", "name", "attachment", "visible"}
            ELSE {}

\* names of the fields of one form of an inline formset
InlineFormFields(inline) ==
    IF inline = "TaskInline"
    THEN {"project", "name", "attachment", "visible", "id", "DELETE"}
    ELSE {"name", "tid", "DELETE"}

ManagementFields == {"TOTAL_FORMS", "INITIAL_FORMS", "MIN_NUM_FORMS", "MAX_NUM_FORMS"}

----------------------------------------------------------------------------
(* Rows as model instances.                                                *)

ProjectInstance(pid) ==
    [pid |-> ToString(pid), name |-> projects[pid].name,
     client_id |-> projects[pid].client,
     created |-> ToString(projects[pid].created),
     modified |-> ToString(projects[pid].modified)]

TaskInstance(id) ==
    [id |-> ToString(id), project_id |-> ToString(tasks[id].project),
     name |-> tasks[id].name,
     attachment |-> IF tasks[id].attachment = "" THEN "FieldFile()"
                    ELSE tasks[id].attachment,
     visible |-> IF tasks[id].visible THEN True ELSE False]

TagInstance(tid) ==
    [tid |-> ToString(tid), name |-> tags[tid].name,
     content_type_id |-> tags[tid].content_type,
     object_id |-> ToString(tags[tid].object_id)]

\* the unsaved instance behind an extra form of an inline of parent
NewTaskInstance(parent) ==
    [id |-> None, project_id |-> parent, name |-> "",
     attachment |-> "FieldFile()", visible |-> True]

NewTagInstance ==
    [tid |-> None, name |-> "", content_type_id |-> None, object_id |-> None]

\* model_to_dict(instance, fields): the editable model fields of the form
ModelToDict(model, inst, fields) ==
    LET fs == LocalFields(model)
        idx == {i \in 1..Len(fs) : fs[i].name \in fields /\ ~fs[i].primary_key}
        base == Built([n \in {fs[i].name : i \in idx} |->
                         inst[fs[CHOOSE i \in idx : fs[i].name = n].attname]])
    IN  IF model = "project" /\ "members" \in fields
        THEN ("members" :> EmptyList) @@ base
        ELSE base

\* ids of the rows an inline formset of the project shows, in pk order
RelatedTasks(pid) == Sorted({t \in DOMAIN tasks : tasks[t].project = pid})
\* ids of the tags the generic relation Project.tags joins to project pid
TagsOf(tgs, pid) ==
    {t \in DOMAIN tgs : tgs[t].content_type = "project" /\ tgs[t].object_id = pid}

RelatedTags(pid) == Sorted(TagsOf(tags, pid))

----------------------------------------------------------------------------
(* Forms of the change page, as the admin renders them on GET.             *)

NoErrors == [k \in {} |-> <<>>]

Form(prefix, model, fields, initial, hasInstance, instance) ==
    [prefix |-> prefix, model |-> model, fields |-> fields, initial |-> initial,
     has_instance |-> hasInstance, instance |-> instance, errors |-> NoErrors]

\* formset.management_form of an unbound formset showing n saved rows
ManagementForm(prefix, n) ==
    Form(prefix, "management", ManagementFields,
         Built([k \in ManagementFields |->
            CASE k = "TOTAL_FORMS" -> ToString(n + Extra)
              [] k = "INITIAL_FORMS" -> ToString(n)
              [] k = "MIN_NUM_FORMS" -> ToString(0)
              [] k = "MAX_NUM_FORMS" -> ToString(DefaultMaxNum)]),
         FALSE, EmptyDict)

\* the i-th (0-based) form of an unbound inline formset of project pid
InlineForm(inline, pid, ids, i) ==
    LET model == InlineModel(inline)
        fields == InlineFormFields(inline)
        prefix == InlinePrefix(inline) \o "-" \o ToString(i)
        saved == i < Len(ids)
        inst == IF model = "task"
                THEN (IF saved THEN TaskInstance(ids[i + 1])
                      ELSE NewTaskInstance(ToString(pid)))
                ELSE (IF saved THEN TagInstance(ids[i + 1]) ELSE NewTagInstance)
    IN  Form(prefix, model, fields,
             IF saved THEN ModelToDict(model, inst, fields) ELSE EmptyDict,
             TRUE, inst)

InlineFormSet(inline, pid) ==
    With(IF inline = "TaskInline" THEN RelatedTasks(pid) ELSE RelatedTags(pid),
         LAMBDA ids :
        [prefix |-> InlinePrefix(inline),
         forms |-> Built([j \in 1..(Len(ids) + Extra) |->
                            InlineForm(inline, pid, ids, j - 1)]),
         extra |-> Extra,
         management_form |-> ManagementForm(InlinePrefix(inline), Len(ids)),
         non_form_errors |-> <<>>])

AdminModel(admin) == IF admin = "ProjectAdmin" THEN "project" ELSE "task"

Table(model) == IF model = "project" THEN DOMAIN projects ELSE DOMAIN tasks

\* a redirect: it carries no context_data
Redirect == [status_code |-> 302, has_context |-> FALSE]

\* PermissionDenied
Forbidden == [status_code |-> 403, has_context |-> FALSE]

\* the page the delete view renders instead of deleting: its context has
\* no 'adminform'
DeleteConfirmation(protected) ==
    [status_code |-> 200, has_context |-> TRUE, protected |-> protected]

\* the changelist page: its context has the change list, no 'adminform'
ChangelistPage == [status_code |-> 200, has_context |-> TRUE]

\* GET of the change page of object pk
GetChangeView(admin, pk) ==
    LET model == AdminModel(admin)
        fields == AdminFormFields(admin)
        inst == IF model = "project" THEN ProjectInstance(pk) ELSE TaskInstance(pk)
    IN  IF pk \notin Table(model) THEN Redirect
        ELSE [status_code |-> 200, has_context |-> TRUE,
              adminform |-> Form("", model, fields,
                                 ModelToDict(model, inst, fields), TRUE, inst),
              inline_admin_formsets |->
                  Built([j \in 1..Len(inlines(admin)) |->
                            InlineFormSet(inlines(admin)[j], pk)]),
              protected |-> {}]

----------------------------------------------------------------------------
(* AdminBaseTestCase: rebuilding POST data from a rendered page.           *)

Key(prefix, k) == IF prefix = "" THEN k ELSE prefix \o "-" \o k

\* get_form_data without its `if v is None: continue`
get_form_data_keeping_none(form) ==
    LET fs == LocalFields(form.model)
        taken == IF form.has_instance
                 THEN {i \in 1..Len(fs) :
                          \/ fs[i].name \in form.fields
                          \/ fs[i].primary_key /\ form.instance[fs[i].attname] # None}
                 ELSE {}
        fromInstance == [n \in {fs[i].name : i \in taken} |->
                            form.instance[fs[CHOOSE i \in taken : fs[i].name = n].attname]]
        IsPk(k) == \E i \in 1..Len(fs) : fs[i].name = k /\ fs[i].primary_key
    IN  With(fromInstance @@ form.initial, LAMBDA initial :
            LET Value(k) == IF initial[k] \in FieldFiles THEN "" ELSE initial[k]
                bare == {k \in DOMAIN initial : k \notin form.fields /\ IsPk(k)}
                keyed == {k \in DOMAIN initial : k \in form.fields}
            IN  [k \in bare |-> initial[k]]
                @@ [key \in {Key(form.prefix, k) : k \in keyed} |->
                       Value(CHOOSE k \in keyed : Key(form.prefix, k) = key)])

\* No form field of the application has a MultiWidget, so the per-widget
\* keys of get_form_data never arise.
get_form_data(form) ==
    LET fs == LocalFields(form.model)
        taken == IF form.has_instance
                 THEN {i \in 1..Len(fs) :
                          \/ fs[i].name \in form.fields
                          \/ fs[i].primary_key /\ form.instance[fs[i].attname] # None}
                 ELSE {}
        fromInstance == [n \in {fs[i].name : i \in taken} |->
                            form.instance[fs[CHOOSE i \in taken : fs[i].name = n].attname]]
        IsPk(k) == \E i \in 1..Len(fs) : fs[i].name = k /\ fs[i].primary_key
    IN  With(fromInstance @@ form.initial, LAMBDA initial :
            LET Value(k) == IF initial[k] \in FieldFiles THEN "" ELSE initial[k]
                bare == {k \in DOMAIN initial : k \notin form.fields /\ IsPk(k)}
                keyed == {k \in DOMAIN initial : k \in form.fields /\ Value(k) # None}
            IN  [k \in bare |-> initial[k]]
                @@ [key \in {Key(form.prefix, k) : k \in keyed} |->
                       Value(CHOOSE k \in keyed : Key(form.prefix, k) = key)])

\* [raised, data]: the exception raised, if any, else the dictionary built
get_form_data_from_response(rsp0) ==
    With(rsp0, LAMBDA rsp :
    IF ~rsp.has_context THEN [raised |-> "AttributeError", data |-> EmptyDict]
    ELSE
    LET formsets == rsp.inline_admin_formsets
        perFormset(fset) ==
            UpdateAll(EmptyDict,
                      Built([j \in 1..(Len(fset.forms) + 1) |->
                                IF j <= Len(fset.forms) THEN get_form_data(fset.forms[j])
                                ELSE get_form_data(fset.management_form)]))
        all == UpdateAll(Update(("_continue" :> "save and continue"),
                                get_form_data(rsp.adminform)),
                         Built([j \in 1..Len(formsets) |-> perFormset(formsets[j])]))
    IN  IF \E j \in 1..Len(formsets) : ~(Len(formsets[j].forms) > formsets[j].extra)
        THEN [raised |-> "AssertionError", data |-> EmptyDict]
        ELSE [raised |-> "", data |-> all])

reset_inline_data(d0, prefix, related, pk) ==
    With(d0, LAMBDA d :
    LET pkKey == prefix \o "-0-" \o pk
        relatedKey == prefix \o "-0-" \o related
    IN  IF pkKey \notin DOMAIN d
        THEN [raised |-> "KeyError", data |-> d]
        ELSE IF related # None /\ relatedKey \notin DOMAIN d
        THEN [raised |-> "KeyError", data |-> Without(d, {pkKey})]
        ELSE [raised |-> "",
              data |-> Assign(Without(d, {pkKey}
                                         \cup (IF related # None THEN {relatedKey}
                                               ELSE {})),
                              prefix \o "-INITIAL_FORMS", ToString(0))])

\* get_errors_from_response returning early on 200 instead of 302
get_errors_from_response_on_200(rsp) ==
    IF rsp.status_code = 200 THEN [raised |-> "", errors |-> NoErrors]
    ELSE IF ~rsp.has_context THEN [raised |-> "AttributeError", errors |-> NoErrors]
    ELSE [raised |-> "", errors |-> Update(NoErrors, rsp.adminform.errors)]

\* get_errors_from_response without the loop over formset.forms
get_errors_from_response_no_forms(rsp) ==
    IF rsp.status_code = 302 THEN [raised |-> "", errors |-> NoErrors]
    ELSE IF ~rsp.has_context THEN [raised |-> "AttributeError", errors |-> NoErrors]
    ELSE IF "adminform" \notin DOMAIN rsp THEN [raised |-> "KeyError", errors |-> NoErrors]
    ELSE
    LET formsets == rsp.inline_admin_formsets
        perFormset(fset) ==
            <<fset.management_form.errors,
              IF fset.non_form_errors # <<>>
              THEN ("non_form_errors" :> fset.non_form_errors)
              ELSE NoErrors>>
        first == Update(NoErrors, rsp.adminform.errors)
    IN  [raised |-> "",
         errors |-> UpdateAll(first, Built([j \in 1..Len(formsets) |->
                                     UpdateAll(NoErrors, perFormset(formsets[j]))]))]

get_errors_from_response(rsp) ==
    IF rsp.status_code = 302 THEN [raised |-> "", errors |-> NoErrors]
    ELSE IF ~rsp.has_context THEN [raised |-> "AttributeError", errors |-> NoErrors]
    ELSE IF "adminform" \notin DOMAIN rsp THEN [raised |-> "KeyError", errors |-> NoErrors]
    ELSE
    LET formsets == rsp.inline_admin_formsets
        \* the dictionaries one formset contributes, in the order of the loop
        perFormset(fset) ==
            Built([j \in 1..(Len(fset.forms) + 2) |->
                IF j <= Len(fset.forms) THEN fset.forms[j].errors
                ELSE IF j = Len(fset.forms) + 1 THEN fset.management_form.errors
                ELSE IF fset.non_form_errors # <<>>
                     THEN ("non_form_errors" :> fset.non_form_errors)
                     ELSE NoErrors])
        first == Update(NoErrors, rsp.adminform.errors)
    IN  [raised |-> "",
         errors |-> UpdateAll(first, Built([j \in 1..Len(formsets) |->
                                     UpdateAll(NoErrors, perFormset(formsets[j]))]))]

----------------------------------------------------------------------------
(* The frozen clock.                                                       *)

\* get_now answering the instant captured by setUp
get_now_captured == now0

\* TimeMixin.get_now, the side effect of the patched timezone.now
get_now == now

\* django.utils.timezone.now() as callers see it
TimezoneNow == IF "now" \in active THEN get_now ELSE clock

----------------------------------------------------------------------------
(* The admin's handling of a POST: validation of the main form and of the  *)
(* inline formsets against the field declarations of the models.           *)

Get(d, k) == IF k \in DOMAIN d THEN d[k] ELSE ""

\* the test client does not send empty lists
Encode(d) == Built([k \in {x \in DOMAIN d : d[x] # EmptyList} |-> d[k]])

\* CheckboxInput.value_from_datadict
ParseBool(v) == v \notin {"", False}

ErrDict(pairs) ==
    With(pairs, LAMBDA ps :
        Built([f \in {p[1] : p \in ps} |-> <<(CHOOSE p \in ps : p[1] = f)[2]>>]))

NextId(S) == IF S = {} THEN 1 ELSE Max(S) + 1

\* CharField(max_length, unique=True), blank=False when required
NameErrors(v, required, maxlen, others) ==
    IF v = "" THEN (IF required THEN {<<"name", "required">>} ELSE {})
    ELSE IF Len(v) > maxlen THEN {<<"name", "max_length">>}
    ELSE IF v \in others THEN {<<"name", "unique">>}
    ELSE {}

OtherTaskNames(self) == {tasks[t].name : t \in (DOMAIN tasks) \ {self}}
OtherProjectNames(self) == {projects[q].name : q \in (DOMAIN projects) \ {self}}

\* FileField(): an upload, or on a saved row the file already stored
AttachmentErrors(v, self) ==
    IF v \in Uploads
       \/ (self \in DOMAIN tasks /\ tasks[self].attachment \notin {"", "FieldFile()"})
    THEN {} ELSE {<<"attachment", "required">>}

\* ModelChoiceField of Project.client: the application never creates a
\* Client row, so any client posted names none
ClientErrors(admin, v) ==
    IF "client" \in AdminFormFields(admin) /\ v # ""
    THEN {<<"client", "invalid_choice">>} ELSE {}

\* errors of the main form of the admin; self is the edited pk, 0 when adding
AdminFormErrors(admin, d, self) ==
    IF admin = "ProjectAdmin"
    THEN ErrDict(NameErrors(Get(d, "name"), TRUE, NameMaxLength, OtherProjectNames(self))
                 \cup ClientErrors(admin, Get(d, "client")))
    ELSE LET p == Get(d, "project")
         IN  ErrDict(NameErrors(Get(d, "name"), TRUE, NameMaxLength, OtherTaskNames(self))
                     \cup AttachmentErrors(Get(d, "attachment"), self)
                     \cup (IF p = "" THEN {<<"project", "required">>}
                           ELSE IF ~(IsInt(p) /\ StrToInt(p) \in DOMAIN projects)
                                THEN {<<"project", "invalid_choice">>}
                           ELSE {}))

\* InlineForeignKeyField.clean: a posted value must name the parent instance
InlineForeignKeyErrors(v, parentPk) ==
    IF v # "" /\ v # parentPk THEN {<<"project", "invalid_choice">>} ELSE {}

\* the hidden primary key ModelChoiceField of a formset form
PkChoiceErrors(pkname, v, table) ==
    IF v # "" /\ ~(IsInt(v) /\ StrToInt(v) \in table)
    THEN {<<pkname, "invalid_choice">>} ELSE {}

\* Form i (0-based) of a bound inline formset.  parentPk is str(parent.pk),
\* related the ids of the parent's rows the formset may edit.
BoundInlineForm(inline, d, i, initialCount, parentPk, related) ==
    LET model == InlineModel(inline)
        pkname == PkName(model)
        pfx == InlinePrefix(inline) \o "-" \o ToString(i)
        saved == i < initialCount
        pkv == Get(d, Key(pfx, pkname))
        inst == IF saved /\ IsInt(pkv) /\ StrToInt(pkv) \in related
                THEN StrToInt(pkv) ELSE 0
        name == Get(d, Key(pfx, "name"))
        visible == ParseBool(Get(d, Key(pfx, "visible")))
        file == Get(d, Key(pfx, "attachment"))
        changed ==
            IF model = "task"
            THEN IF inst # 0
                 THEN name # tasks[inst].name \/ visible # tasks[inst].visible
                      \/ file \in Uploads
                 ELSE name # "" \/ ~visible \/ file \in Uploads \/ pkv # ""
            ELSE IF inst # 0 THEN name # tags[inst].name
                 ELSE name # "" \/ pkv # ""
        skipped == ~saved /\ ~changed
        errs ==
            IF skipped THEN {}
            ELSE IF model = "task"
            THEN NameErrors(name, TRUE, NameMaxLength, OtherTaskNames(inst))
                 \cup AttachmentErrors(file, inst)
                 \cup InlineForeignKeyErrors(Get(d, Key(pfx, "project")), parentPk)
                 \cup PkChoiceErrors(pkname, pkv, DOMAIN tasks)
            ELSE NameErrors(name, FALSE, 32, {})
                 \cup PkChoiceErrors(pkname, pkv, DOMAIN tags)
    IN  [errors |-> ErrDict(errs),
         checked |-> ~skipped,
         save |-> changed /\ (inst # 0 \/ ~saved),
         inst |-> inst, name |-> name, visible |-> visible, file |-> file]

BoundFormSet(inline, d, parentPk, related) ==
    LET prefix == InlinePrefix(inline)
        total == Get(d, Key(prefix, "TOTAL_FORMS"))
        initial == Get(d, Key(prefix, "INITIAL_FORMS"))
        managed == IsInt(total) /\ IsInt(initial)
        bound == IF managed
                 THEN Built([j \in 1..StrToInt(total) |->
                               BoundInlineForm(inline, d, j - 1, StrToInt(initial),
                                               parentPk, related)])
                 ELSE <<>>
    IN  With(bound, LAMBDA forms :
        LET clean == {j \in 1..Len(forms) :
                         forms[j].checked /\ forms[j].errors = NoErrors}
            duplicate == inline = "TaskInline"
                         /\ \E j, k \in clean : j < k /\ forms[j].name = forms[k].name
        IN  [prefix |-> prefix,
             forms |-> forms,
             management_form |-> [errors |-> NoErrors],
             non_form_errors |->
                IF ~managed THEN <<"missing_management_form">>
                ELSE IF duplicate THEN <<"duplicate">> ELSE <<>>])

FormSetValid(fset) ==
    /\ fset.non_form_errors = <<>>
    /\ \A j \in 1..Len(fset.forms) : fset.forms[j].errors = NoErrors

----------------------------------------------------------------------------
(* Saving valid forms.                                                     *)

\* ids given to the forms saved as new rows, in form order
NewIds(tbl, forms) ==
    Built([j \in {i \in 1..Len(forms) : forms[i].save /\ forms[i].inst = 0} |->
        NextId(DOMAIN tbl)
        + Cardinality({i \in 1..(j - 1) : forms[i].save /\ forms[i].inst = 0})])

\* formset.save(): rows updated by changed saved forms, rows inserted by new ones
SaveForms(tbl, forms, row(_, _)) ==
    With(NewIds(tbl, forms), LAMBDA new :
        LET formOf(id) == CHOOSE j \in 1..Len(forms) :
                             /\ forms[j].save
                             /\ \/ forms[j].inst = id
                                \/ forms[j].inst = 0 /\ new[j] = id
            written == {forms[j].inst : j \in {i \in 1..Len(forms) :
                                                  forms[i].save /\ forms[i].inst # 0}}
                       \cup {new[j] : j \in DOMAIN new}
        IN  Built([id \in (DOMAIN tbl) \cup written |->
                    IF id \in written THEN row(forms[formOf(id)], id) ELSE tbl[id]]))

SaveTasks(tbl, forms, pid) ==
    LET row(f, id) ==
            [project |-> pid, name |-> f.name, visible |-> f.visible,
             attachment |-> IF f.file \in Uploads THEN Stored(f.file)
                            ELSE IF f.inst # 0 THEN tbl[f.inst].attachment
                            ELSE "FieldFile()"]
    IN  SaveForms(tbl, forms, row)

SaveTags(tbl, forms, pid) ==
    LET row(f, id) == [name |-> f.name, content_type |-> "project",
                       object_id |-> pid]
    IN  SaveForms(tbl, forms, row)

Unchanged(rsp) == [response |-> rsp, projects |-> projects, tasks |-> tasks, tags |-> tags]

\* POST of d0 to the add page (add) or to the change page of pk
ChangeformPost(admin, add, pk, d0) ==
    With(Encode(d0), LAMBDA d :
    LET self == IF add THEN 0 ELSE pk
        parentPk == IF add THEN "None" ELSE ToString(pk)
        id == IF add THEN NextId(Table(AdminModel(admin))) ELSE pk
        stamp == IF HasTimestamps THEN TimezoneNow ELSE 0
        newProject ==
            [name |-> Get(d, "name"),
             client |-> IF add \/ "client" \in AdminFormFields(admin) THEN None
                        ELSE projects[pk].client,
             created |-> IF add THEN stamp ELSE projects[pk].created,
             modified |-> stamp]
        newTask ==
            [project |-> StrToInt(Get(d, "project")), name |-> Get(d, "name"),
             visible |-> ParseBool(Get(d, "visible")),
             attachment |-> IF Get(d, "attachment") \in Uploads
                            THEN Stored(Get(d, "attachment"))
                            ELSE tasks[pk].attachment]
        bound == Built([j \in 1..Len(inlines(admin)) |->
                    BoundFormSet(inlines(admin)[j], d, parentPk,
                                 IF add THEN {}
                                 ELSE IF inlines(admin)[j] = "TaskInline"
                                      THEN {t \in DOMAIN tasks : tasks[t].project = pk}
                                      ELSE TagsOf(tags, pk))])
    IN  IF add /\ ~has_add_permission(admin) THEN Unchanged(Forbidden)
        ELSE IF ~add /\ ~has_change_permission(admin) THEN Unchanged(Forbidden)
        ELSE IF ~add /\ pk \notin Table(AdminModel(admin)) THEN Unchanged(Redirect)
        ELSE
        With(<<AdminFormErrors(admin, d, self), bound>>, LAMBDA v :
        LET formErrors == v[1]
            formsets == v[2]
            valid == formErrors = NoErrors
                     /\ \A j \in 1..Len(formsets) : FormSetValid(formsets[j])
        IN  IF ~valid
            THEN Unchanged([status_code |-> 200, has_context |-> TRUE,
                            adminform |-> [errors |-> formErrors],
                            inline_admin_formsets |-> formsets,
                            protected |-> {}])
            ELSE IF admin = "ProjectAdmin"
            THEN [response |-> Redirect,
                  projects |-> (id :> newProject) @@ projects,
                  tasks |-> SaveTasks(tasks, formsets[1].forms, id),
                  tags |-> SaveTags(tags, formsets[2].forms, id)]
            ELSE [response |-> Redirect,
                  projects |-> projects,
                  tasks |-> (id :> newTask) @@ tasks,
                  tags |-> tags]))

\* GET of the add page
AddView(admin) ==
    IF ~has_add_permission(admin) THEN Forbidden
    ELSE [status_code |-> 200, has_context |-> TRUE,
          adminform |-> [errors |-> NoErrors],
          inline_admin_formsets |-> <<>>,
          protected |-> {}]

\* rows whose on_delete=PROTECT foreign key points at the object
Protected(admin, pk, tks) ==
    IF admin = "ProjectAdmin" THEN {t \in DOMAIN tks : tks[t].project = pk} ELSE {}

\* POST of {'post': 'yes'} to the delete page of pk, tks being the task table
DeletePost(admin, pk, tks) ==
    LET same(rsp) == [response |-> rsp, projects |-> projects, tasks |-> tks,
                      tags |-> tags]
    IN  IF ~has_delete_permission(admin) THEN same(Forbidden)
        ELSE IF pk \notin Table(AdminModel(admin)) THEN same(Redirect)
        ELSE IF Protected(admin, pk, tks) # {}
        THEN same(DeleteConfirmation(Protected(admin, pk, tks)))
        ELSE IF admin = "ProjectAdmin"
        THEN [response |-> Redirect,
              projects |-> [q \in (DOMAIN projects) \ {pk} |-> projects[q]],
              tasks |-> tks,
              tags |-> [t \in (DOMAIN tags) \ TagsOf(tags, pk) |-> tags[t]]]
        ELSE [response |-> Redirect,
              projects |-> projects,
              tasks |-> [t \in (DOMAIN tks) \ {pk} |-> tks[t]],
              tags |-> tags]

verbose_name(model) == model
verbose_name_plural(model) == model \o "s"

\* the <p class="paginator"> element of the changelist page
ChangelistPaginator(admin) ==
    LET count == Cardinality(Table(AdminModel(admin)))
    IN  [count |-> count,
         name |-> IF count = 1 THEN verbose_name(AdminModel(admin))
                  ELSE verbose_name_plural(AdminModel(admin)),
         save |-> list_editable(admin) # {} /\ has_change_permission(admin)
                  /\ count # 0]

----------------------------------------------------------------------------
(* The test cases of testproject.testapp.tests and the harness calls.      *)

TestCases == {"ProjectAdminTestCase", "TaskAdminTestCase"}

\* model_admin of the test case
AdminOf(tc) == IF tc = "ProjectAdminTestCase" THEN "ProjectAdmin" ELSE "TaskAdmin"

\* get_object().pk: the fixture object named by object_name
ObjectPk(tc) == IF tc = "ProjectAdminTestCase" THEN FixturePid ELSE 1

\* rows created by setUpTestData at time t
FixtureProjects(tc, t) ==
    FixturePid :> [name |-> "project", client |-> None, created |-> t,
                   modified |-> t]

FixtureTasks(tc) ==
    LET row(n) == [project |-> FixturePid, name |-> n, visible |-> TRUE,
                   attachment |-> "FieldFile(txt.doc)"]
    IN  IF tc = "ProjectAdminTestCase"
        THEN (1 :> row("task")) @@ (2 :> row("task2"))
        ELSE (1 :> row("task"))

FixtureTags(tc) ==
    IF tc = "ProjectAdminTestCase"
    THEN (1 :> [name |-> "tag", content_type |-> "project",
                object_id |-> FixturePid])
    ELSE [t \in {} |-> [name |-> "", content_type |-> "project", object_id |-> 0]]

\* the next statement F on the dictionary, unless s has raised
Then(s, F(_)) == With(s, LAMBDA v : IF v.raised # "" THEN v ELSE F(v.data))

Ok(d) == [raised |-> "", data |-> d]

\* d[k] += suffix
AppendTo(d, k, suffix) ==
    IF k \notin DOMAIN d THEN [raised |-> "KeyError", data |-> d]
    ELSE Ok(Assign(d, k, d[k] \o suffix))

\* del d[k]
Delete(d, k) ==
    IF k \notin DOMAIN d THEN [raised |-> "KeyError", data |-> d]
    ELSE Ok(Without(d, {k}))

transform_to_new(tc, d) ==
    IF tc = "TaskAdminTestCase"
    THEN Ok(Assign(d, "attachment", "SimpleUploadedFile(txt.doc)"))
    ELSE
    Then(Then(Then(Then(Then(Then(
        Delete(d, "pid"),
        LAMBDA x : Ok(Assign(x, "name", "new"))),
        LAMBDA x : reset_inline_data(x, TaskPrefix, "project", "id")),
        LAMBDA x : reset_inline_data(x, TagPrefix, None, "tid")),
        LAMBDA x : AppendTo(x, "task_set-0-name", "_new")),
        LAMBDA x : AppendTo(x, "task_set-1-name", "_new")),
        LAMBDA x : Ok(Assign(Assign(x, "task_set-0-attachment",
                                    "SimpleUploadedFile(doc.txt)"),
                             "task_set-1-attachment", "SimpleUploadedFile(doc.txt)")))

\* prepare_deletion left at AdminBaseTestCase's `pass`
prepare_deletion_pass(tc) == tasks

prepare_deletion(tc) ==
    IF tc = "ProjectAdminTestCase"
    THEN [t \in {x \in DOMAIN tasks : tasks[x].project # FixturePid} |-> tasks[t]]
    ELSE tasks

\* '_FORMS' in k: of the keys the application's forms produce, exactly the
\* management form keys of the two inline formsets
ContainsFORMS(k) ==
    k \in {Key(p, m) : p \in {TaskPrefix, TagPrefix}, m \in ManagementFields}

\* keyword parameters of post_changeform
PostChangeformParams == {"create", "erase_data"}

NoResponse == [status_code |-> 0, has_context |-> FALSE]

Raise(exc) == [raised |-> exc] @@ Unchanged(NoResponse)

\* if erase_data: keep the keys containing '_FORMS'
Erase(d, erase_data) ==
    IF erase_data THEN Built([k \in {x \in DOMAIN d : ContainsFORMS(x)} |-> d[k]])
    ELSE d

post_changeform(tc, kwargs) ==
    IF ~(kwargs \subseteq PostChangeformParams) THEN Raise("TypeError")
    ELSE
    With(get_form_data_from_response(GetChangeView(AdminOf(tc), ObjectPk(tc))),
         LAMBDA rebuilt :
    IF rebuilt.raised # "" THEN Raise(rebuilt.raised)
    ELSE
    With(IF "create" \in kwargs THEN transform_to_new(tc, rebuilt.data) ELSE rebuilt,
         LAMBDA moved :
    IF moved.raised # "" THEN Raise(moved.raised)
    ELSE
    With(Erase(moved.data, "erase_data" \in kwargs), LAMBDA sent :
        [raised |-> ""]
        @@ ChangeformPost(AdminOf(tc), "create" \in kwargs, ObjectPk(tc), sent))))

\* the marker assert_row_count looks for in the page
assert_row_count(admin, count) ==
    [count |-> count,
     name |-> IF count = 1 THEN verbose_name(AdminModel(admin))
              ELSE verbose_name_plural(AdminModel(admin)),
     save |-> list_editable(admin) # {}]

----------------------------------------------------------------------------
(* The run of a test case: setUp, the harness calls of a test method,      *)
(* tearDown, and the rollback of the test's transaction.                   *)

\* the columns QuerySet.update accepts for a model
Columns(model) ==
    {LocalFields(model)[j].name : j \in 1..Len(LocalFields(model))}

\* the row with the columns named by kwargs overwritten
UpdateRow(row, kwargs) ==
    [f \in DOMAIN row |-> IF f \in DOMAIN kwargs THEN kwargs[f] ELSE row[f]]

\* the table of a model
Rows(model) ==
    CASE model = "project" -> projects
      [] model = "task" -> tasks
      [] model = "tag" -> tags

\* the names the other rows of a unique name column hold; Tag.name is not unique
OtherNames(model, pk) ==
    CASE model = "project" -> OtherProjectNames(pk)
      [] model = "task" -> OtherTaskNames(pk)
      [] model = "tag" -> {}

\* update_object(obj, **kwargs), obj being the row pk of model:
\* obj._meta.model.objects.filter(pk=obj.pk).update(**kwargs) writes the
\* columns as given, without form, validation, save() or auto_now.  A name
\* that is not a column raises FieldDoesNotExist; no row of that pk updates
\* nothing; a primary key or a unique name another row holds raises
\* IntegrityError; a new primary key moves the row, the rows that refer to
\* it keep the old value.  Column lengths are not checked and foreign keys
\* are checked at commit only (SQLite, PostgreSQL), which a TestCase never
\* reaches.
update_object(model, pk, kwargs) ==
    With(Rows(model), LAMBDA rows :
    LET pkname == PkName(model)
        newpk == IF pkname \in DOMAIN kwargs THEN kwargs[pkname] ELSE pk
    IN  IF ~(DOMAIN kwargs \subseteq Columns(model)) THEN Raise("FieldDoesNotExist")
        ELSE IF pk \notin DOMAIN rows THEN [raised |-> ""] @@ Unchanged(NoResponse)
        ELSE IF newpk # pk /\ newpk \in DOMAIN rows THEN Raise("IntegrityError")
        ELSE IF "name" \in DOMAIN kwargs /\ kwargs["name"] \in OtherNames(model, pk)
             THEN Raise("IntegrityError")
        ELSE With(Built([k \in ((DOMAIN rows) \ {pk}) \cup {newpk} |->
                            IF k = newpk THEN UpdateRow(rows[pk], kwargs)
                            ELSE rows[k]]),
                  LAMBDA written :
                [raised |-> "", response |-> NoResponse,
                 projects |-> IF model = "project" THEN written ELSE projects,
                 tasks |-> IF model = "task" THEN written ELSE tasks,
                 tags |-> IF model = "tag" THEN written ELSE tags]))

\* timedelta(seconds=1)
second == 1

\* the order in which setUp starts and tearDown stops the patches
SetUpOrder == <<"now", "datetime">>
TearDownOrder == <<"datetime", "now">>

NoMarker == [count |-> 0, name |-> "", save |-> FALSE]

NoCall == [op |-> "", kwargs |-> {}, raised |-> "", response |-> NoResponse,
           count0 |-> 0, existed |-> FALSE, emptied |-> FALSE,
           direct |-> FALSE, now |-> 0,
           marker |-> NoMarker, page |-> NoMarker]

Count(tc) == Cardinality(Table(AdminModel(AdminOf(tc))))

Exists(tc) == ObjectPk(tc) \in Table(AdminModel(AdminOf(tc)))

\* an inline of the change page of the tested object shows no saved row
Emptied(tc) ==
    \E j \in 1..Len(inlines(AdminOf(tc))) :
        Len(IF inlines(AdminOf(tc))[j] = "TaskInline"
            THEN RelatedTasks(ObjectPk(tc)) ELSE RelatedTags(ObjectPk(tc))) = 0

\* the outcome of a harness call, with what held when it was made: the row
\* count, whether the tested object existed, whether one of its inlines was
\* empty, whether the test has called update_object (this call included)
Call(op, kwargs, raised, response) ==
    [op |-> op, kwargs |-> kwargs, raised |-> raised, response |-> response,
     count0 |-> Count(testcase), existed |-> Exists(testcase),
     emptied |-> Emptied(testcase),
     direct |-> r.direct \/ op = "update_object", now |-> now,
     marker |-> NoMarker, page |-> NoMarker]

pure == <<data, args, resp>>
db == <<projects, tasks, tags>>
patches == <<active, started, stopped>>
fixed == <<build, testcase>>

Init ==
    /\ build \in {"testproject", "tests"}
    /\ testcase \in TestCases
    /\ phase = "idle"
    /\ clock = 0 /\ now = 0 /\ now0 = 0
    /\ active = {} /\ started = <<>> /\ stopped = <<>>
    /\ projects = FixtureProjects(testcase, 0)
    /\ tasks = FixtureTasks(testcase)
    /\ tags = FixtureTags(testcase)
    /\ steps = 0
    /\ r = NoCall
    /\ data = EmptyDict /\ args = <<"", "", "">> /\ resp = NoResponse

\* real time passes
Tick ==
    /\ clock < MaxClock
    /\ clock' = clock + 1
    /\ UNCHANGED <<fixed, phase, now, now0, patches, db, steps, r, pure>>

setUp ==
    /\ phase = "idle"
    /\ now' = TimezoneNow
    /\ now0' = TimezoneNow
    /\ started' = SetUpOrder
    /\ active' = active \cup {SetUpOrder[j] : j \in 1..Len(SetUpOrder)}
    /\ stopped' = <<>>
    /\ phase' = "running"
    /\ steps' = 0
    /\ r' = NoCall
    /\ UNCHANGED <<fixed, clock, db, pure>>

tearDown ==
    /\ phase = "running"
    /\ stopped' = TearDownOrder
    /\ active' = active \ {TearDownOrder[j] : j \in 1..Len(TearDownOrder)}
    /\ phase' = "finished"
    /\ UNCHANGED <<fixed, clock, now, now0, started, db, steps, r, pure>>

\* django.test.TestCase rolls the test's transaction back
Rollback ==
    /\ phase = "finished"
    /\ phase' = "idle"
    /\ projects' = FixtureProjects(testcase, 0)
    /\ tasks' = FixtureTasks(testcase)
    /\ tags' = FixtureTags(testcase)
    /\ UNCHANGED <<fixed, clock, now, now0, patches, steps, r, pure>>

\* self.now += second
AdvanceNow ==
    /\ phase = "running"
    /\ now - now0 < MaxAdvance
    /\ now' = now + second
    /\ UNCHANGED <<fixed, phase, clock, now0, patches, db, steps, r, pure>>

InTest == phase = "running" /\ steps < MaxSteps

KwargChoices == {{}, {"create"}, {"erase_data"}, {"create", "erase_data"},
                 {"erase"}, {"fields"}}

PostChangeform ==
    /\ InTest
    /\ \E kwargs \in KwargChoices :
          LET out == post_changeform(testcase, kwargs)
          IN  /\ r' = Call("post_changeform", kwargs, out.raised, out.response)
              /\ projects' = out.projects
              /\ tasks' = out.tasks
              /\ tags' = out.tags
    /\ steps' = steps + 1
    /\ UNCHANGED <<fixed, phase, clock, now, now0, patches, pure>>

\* test_changeform_view
GetAdd ==
    /\ InTest
    /\ r' = Call("get_add", {}, "", AddView(AdminOf(testcase)))
    /\ steps' = steps + 1
    /\ UNCHANGED <<fixed, phase, clock, now, now0, patches, db, pure>>

\* test_delete
TestDelete ==
    /\ InTest
    /\ LET out == DeletePost(AdminOf(testcase), ObjectPk(testcase),
                             prepare_deletion(testcase))
       IN  /\ r' = Call("delete", {}, "", out.response)
           /\ projects' = out.projects
           /\ tasks' = out.tasks
           /\ tags' = out.tags
    /\ steps' = steps + 1
    /\ UNCHANGED <<fixed, phase, clock, now, now0, patches, pure>>

\* test_changelist
TestChangelist ==
    /\ InTest
    /\ r' = [Call("changelist", {}, "", ChangelistPage)
                EXCEPT !.marker = assert_row_count(AdminOf(testcase), Count(testcase)),
                       !.page = ChangelistPaginator(AdminOf(testcase))]
    /\ steps' = steps + 1
    /\ UNCHANGED <<fixed, phase, clock, now, now0, patches, db, pure>>

\* the objects setUpTestData keeps on the test case: cls.project, cls.task
\* and, on ProjectAdminTestCase, cls.task2 and cls.tag
FixtureObjects(tc) ==
    {<<"project", FixturePid>>, <<"task", 1>>}
    \cup (IF tc = "ProjectAdminTestCase" THEN {<<"task", 2>>, <<"tag", 1>>} ELSE {})

\* a name longer than NameMaxLength
LongName == "renamed_too"

\* a project id no row has
NoProject == 7

\* a primary key no fixture row has
SparePk == 5

\* keyword arguments a test hands to update_object for an object of model:
\* of every column a value the forms accept and, where there is one, a value
\* they refuse; relation columns pointed away; a new primary key; a name
\* another fixture row holds; a timestamp column that only one build (or no
\* build) has
UpdateChoices(model) ==
    CASE model = "project" ->
            {"name" :> "renamed", "name" :> "", "name" :> LongName,
             "modified" :> now + second, "created" :> now + second,
             ("name" :> "renamed") @@ ("modified" :> now + second),
             "client" :> ToString(1), "pid" :> FixturePid + 1}
      [] model = "task" ->
            {"name" :> "renamed", "name" :> "", "name" :> LongName,
             "name" :> "task2", "attachment" :> "", "visible" :> FALSE,
             "project" :> NoProject, "id" :> SparePk,
             "modified" :> now + second}
      [] model = "tag" ->
            {"name" :> "renamed", "object_id" :> SparePk,
             "content_type" :> "task", "tid" :> SparePk}

\* BaseTestCase.update_object called by a test
UpdateObject ==
    /\ InTest
    /\ \E obj \in FixtureObjects(testcase) : \E kwargs \in UpdateChoices(obj[1]) :
          LET out == update_object(obj[1], obj[2], kwargs)
          IN  /\ r' = Call("update_object", DOMAIN kwargs, out.raised, out.response)
              /\ projects' = out.projects
              /\ tasks' = out.tasks
              /\ tags' = out.tags
    /\ steps' = steps + 1
    /\ UNCHANGED <<fixed, phase, clock, now, now0, patches, pure>>

Next ==
    \/ Tick
    \/ setUp
    \/ tearDown
    \/ Rollback
    \/ AdvanceNow
    \/ PostChangeform
    \/ GetAdd
    \/ TestDelete
    \/ TestChangelist
    \/ UpdateObject

Spec == Init /\ [][Next]_vars

----------------------------------------------------------------------------
(* reset_inline_data on the form data of change pages.                     *)

TaskNames == <<"task", "task2", "task3", "task4">>

\* (prefix, related, pk) a caller may hand to reset_inline_data
ArgChoices == {<<TaskPrefix, "project", "id">>, <<TaskPrefix, None, "id">>,
               <<TagPrefix, None, "tid">>}

InitInline ==
    /\ build \in {"testproject", "tests"}
    /\ testcase = "ProjectAdminTestCase"
    /\ phase = "running"
    /\ clock = 0 /\ now = 0 /\ now0 = 0
    /\ active = {"now", "datetime"} /\ started = SetUpOrder /\ stopped = <<>>
    /\ projects = FixtureProjects(testcase, 0)
    /\ \E n \in 1..MaxSaved : \E vis \in [1..n -> BOOLEAN] :
          tasks = [t \in 1..n |->
                      [project |-> FixturePid, name |-> TaskNames[t],
                       visible |-> vis[t], attachment |-> "FieldFile(txt.doc)"]]
    /\ \E m \in 1..MaxSaved :
          tags = [t \in 1..m |-> [name |-> "tag", content_type |-> "project",
                                  object_id |-> FixturePid]]
    /\ steps = 0
    /\ r = NoCall
    /\ data = get_form_data_from_response(
                  GetChangeView("ProjectAdmin", FixturePid)).data
    /\ args = <<"", "", "">>
    /\ resp = NoResponse

ResetInline ==
    /\ steps < 2
    /\ \E a \in ArgChoices :
          LET out == reset_inline_data(data, a[1], a[2], a[3])
          IN  /\ data' = out.data
              /\ args' = a
              /\ r' = [NoCall EXCEPT !.op = "reset_inline_data", !.raised = out.raised]
    /\ steps' = steps + 1
    /\ UNCHANGED <<fixed, phase, clock, now, now0, patches, db, resp>>

NextInline == ResetInline

SpecInline == InitInline /\ [][NextInline]_vars

----------------------------------------------------------------------------
(* get_errors_from_response on the responses of the change form view.      *)

ErrChoices == {NoErrors, "name" :> <<"required">>, "name" :> <<"unique">>}

FormChoices == {[errors |-> e] : e \in ErrChoices}

FormSetChoices ==
    {[forms |-> fs, management_form |-> [errors |-> m], non_form_errors |-> n] :
        fs \in UNION {[1..k -> FormChoices] : k \in 0..MaxErrForms},
        m \in {NoErrors, "TOTAL_FORMS" :> <<"required">>},
        n \in {<<>>, <<"duplicate">>}}

\* the admins of the application have no inline or two
InlineCounts == {Len(inlines("TaskAdmin")), Len(inlines("ProjectAdmin"))}

ResponseChoices ==
    {Redirect, Forbidden, ChangelistPage}
    \cup {DeleteConfirmation(p) : p \in {{}, {1}, {1, 2}}}
    \cup {[status_code |-> 200, has_context |-> TRUE, adminform |-> f,
           inline_admin_formsets |-> fss, protected |-> {}] :
             f \in FormChoices,
             fss \in UNION {[1..k -> FormSetChoices] : k \in InlineCounts}}

InitErrors ==
    /\ build = "tests"
    /\ testcase = "ProjectAdminTestCase"
    /\ phase = "running"
    /\ clock = 0 /\ now = 0 /\ now0 = 0
    /\ active = {"now", "datetime"} /\ started = SetUpOrder /\ stopped = <<>>
    /\ projects = FixtureProjects(testcase, 0)
    /\ tasks = FixtureTasks(testcase)
    /\ tags = FixtureTags(testcase)
    /\ steps = 0
    /\ r = NoCall
    /\ data = EmptyDict /\ args = <<"", "", "">>
    /\ resp \in ResponseChoices

GetErrors ==
    /\ r.op = ""
    /\ LET out == get_errors_from_response(resp)
       IN  r' = [op |-> "get_errors_from_response", raised |-> out.raised,
                 errors |-> out.errors]
    /\ UNCHANGED <<fixed, phase, clock, now, now0, patches, db, steps, pure>>

NextErrors == GetErrors

SpecErrors == InitErrors /\ [][NextErrors]_vars

----------------------------------------------------------------------------
(* Properties.                                                             *)

Admin == AdminOf(testcase)

\* the admin refuses nothing
FullFunctional ==
    has_add_permission(Admin) /\ has_change_permission(Admin)
    /\ has_delete_permission(Admin)

\* the admin class whose declaration refuses add, change and delete
DeclaredReadOnly == Admin = "TaskAdmin" /\ build = "tests"

\* the last harness call, while its test method is still running
Called(op, kwargs) == phase = "running" /\ r.op = op /\ r.kwargs = kwargs

Errors == get_errors_from_response(r.response)

HasModified == AdminModel(Admin) = "project" /\ HasTimestamps

C2_CreateSucceeds ==
    (Called("post_changeform", {"create"}) /\ testcase = "ProjectAdminTestCase"
     /\ FullFunctional /\ r.existed) =>
        /\ r.raised = ""
        /\ r.response.status_code = 302
        /\ Errors.raised = "" /\ Errors.errors = NoErrors
        /\ Count(testcase) = r.count0 + 1
        /\ HasTimestamps => projects[Max(DOMAIN projects)].created = r.now

\* C3: on a full-functional admin, test_delete (prepare_deletion, then POST of
\* {'post': 'yes'} to the delete page) is answered by a 302 redirect that
\* reports no protected object and no error, and the tested object's row is
\* gone.
C3_DeleteSucceeds ==
    (Called("delete", {}) /\ FullFunctional) =>
        /\ r.response.status_code = 302
        /\ ~(r.response.has_context /\ r.response.protected # {})
        /\ Errors.raised = "" /\ Errors.errors = NoErrors
        /\ ~Exists(testcase)

C3_Witness ==
    /\ Called("delete", {}) /\ FullFunctional /\ r.existed
    /\ testcase = "ProjectAdminTestCase"
    /\ r.response.status_code = 302
    /\ FixturePid \notin DOMAIN projects
    /\ DOMAIN tasks = {}

C5_EraseAndFields ==
    /\ (Called("post_changeform", {"erase"}) /\ FullFunctional /\ r.existed) =>
          /\ r.raised = ""
          /\ r.response.status_code = 200
          /\ Errors.errors # NoErrors
    /\ (Called("post_changeform", {"fields"}) /\ FullFunctional /\ r.existed) =>
          /\ r.raised = ""
          /\ r.response.status_code = 302
          /\ Errors.errors = NoErrors
          /\ testcase = "ProjectAdminTestCase" =>
                projects[FixturePid].name = "new_name"

\* C6, as stated: on a full-functional admin, post_changeform(create=True,
\* erase_data=True) on the existing tested object is answered 200,
\* get_errors_from_response of the answer is a non-empty error list, and no
\* object is created.
C6_AlwaysAnswered ==
    (Called("post_changeform", {"create", "erase_data"}) /\ FullFunctional
     /\ r.existed) =>
        /\ r.raised = ""
        /\ r.response.status_code = 200
        /\ Errors.raised = "" /\ Errors.errors # NoErrors
        /\ Count(testcase) = r.count0

\* C6, amended: on a full-functional admin, post_changeform(create=True,
\* erase_data=True) on the existing tested object creates no object; it is
\* answered 200 and get_errors_from_response of the answer is a non-empty
\* error list while every inline of the change page shows a saved row, and
\* raises AssertionError ("Empty AdminInline") without posting once an inline
\* shows none.
C6_CreateWithoutData ==
    (Called("post_changeform", {"create", "erase_data"}) /\ FullFunctional
     /\ r.existed) =>
        /\ ~r.emptied =>
              /\ r.raised = ""
              /\ r.response.status_code = 200
              /\ Errors.raised = "" /\ Errors.errors # NoErrors
        /\ r.emptied => r.raised = "AssertionError" /\ r.response = NoResponse
        /\ Count(testcase) = r.count0

C6_Witness ==
    /\ Called("post_changeform", {"create", "erase_data"}) /\ FullFunctional
    /\ r.existed /\ ~r.emptied
    /\ testcase = "ProjectAdminTestCase"
    /\ r.response.status_code = 200
    /\ "name" \in DOMAIN Errors.errors
    /\ Count(testcase) = r.count0

\* C7: the changelist is answered 200 and its paginator shows the number of
\* objects, labelled verbose_name for 1 and verbose_name_plural otherwise
\* (0 included), followed by a Save button iff the admin has list_editable
\* fields: the marker assert_row_count looks for is the paginator rendered.
C7_ChangelistMarker ==
    Called("changelist", {}) =>
        /\ r.response.status_code = 200
        /\ r.marker.count = r.count0
        /\ r.page = r.marker

\* the elements of a sequence in reverse order
Reverse(q) == [j \in 1..Len(q) |-> q[Len(q) + 1 - j]]

\* C8: between setUp and tearDown timezone.now() returns the current
\* self.now, whatever the real clock shows; once tearDown has run both
\* patches are stopped, in the reverse of the order they were started.
C8_TimeFrozen ==
    /\ phase = "running" =>
          /\ TimezoneNow = now
          /\ active = {"now", "datetime"}
    /\ phase # "running" =>
          /\ active = {}
          /\ stopped = Reverse(started)

C8_Witness ==
    /\ phase = "finished"
    /\ started = <<"now", "datetime">>
    /\ stopped = <<"datetime", "now">>
    /\ now # now0
    /\ clock # now0

\* C9: after reset_inline_data(data, prefix, related, pk) no form index i of
\* the formset keeps '<prefix>-<i>-<pk>' or, related not being None,
\* '<prefix>-<i>-<related>', and '<prefix>-INITIAL_FORMS' is 0.
C9_NoSavedRecordLeft ==
    (r.op = "reset_inline_data" /\ r.raised = "") =>
        /\ \A i \in 0..(MaxSaved + Extra) :
              /\ Key(args[1], Key(ToString(i), args[3])) \notin DOMAIN data
              /\ args[2] # None =>
                    Key(args[1], Key(ToString(i), args[2])) \notin DOMAIN data
        /\ data[Key(args[1], "INITIAL_FORMS")] = ToString(0)

\* the response carries the context of a change form
HasChangeForm(rsp) == rsp.has_context /\ "adminform" \in DOMAIN rsp

\* no form, management form or formset of the response carries an error
ErrorFree(rsp) ==
    HasChangeForm(rsp) =>
        /\ rsp.adminform.errors = NoErrors
        /\ \A j \in 1..Len(rsp.inline_admin_formsets) :
              LET fset == rsp.inline_admin_formsets[j]
              IN  /\ \A i \in 1..Len(fset.forms) : fset.forms[i].errors = NoErrors
                  /\ fset.management_form.errors = NoErrors
                  /\ fset.non_form_errors = <<>>

\* C10, as stated: get_errors_from_response returns an empty dict for a 302
\* without reading its context, and for any other response an empty dict iff
\* the main form, every inline form, every management form and every
\* formset's non-form errors are error-free.
C10_AnyResponse ==
    (r.op = "get_errors_from_response") =>
        /\ resp.status_code = 302 => r.raised = "" /\ r.errors = NoErrors
        /\ resp.status_code # 302 =>
              /\ r.raised = ""
              /\ r.errors = NoErrors <=> ErrorFree(resp)

\* C10, amended: get_errors_from_response returns an empty dict for a 302
\* without reading its context; for another response that carries the context
\* of a change form it returns an empty dict iff the main form, every inline
\* form, every management form and every formset's non-form errors are
\* error-free; for another response without context_data (a 403, a page
\* rendered without a template response) it raises AttributeError, and for
\* one whose context_data has no 'adminform' (the delete confirmation page)
\* it raises KeyError.
C10_ErrorsEmptyIffErrorFree ==
    (r.op = "get_errors_from_response") =>
        /\ resp.status_code = 302 => r.raised = "" /\ r.errors = NoErrors
        /\ (resp.status_code # 302 /\ HasChangeForm(resp)) =>
              /\ r.raised = ""
              /\ r.errors = NoErrors <=> ErrorFree(resp)
        /\ (resp.status_code # 302 /\ ~resp.has_context) =>
              r.raised = "AttributeError"
        /\ (resp.status_code # 302 /\ resp.has_context /\ ~HasChangeForm(resp)) =>
              r.raised = "KeyError"

C10_Witness ==
    /\ r.op = "get_errors_from_response"
    /\ r.raised = ""
    /\ resp.status_code = 200
    /\ resp.adminform.errors = NoErrors
    /\ Len(resp.inline_admin_formsets) = 2
    /\ Len(resp.inline_admin_formsets[1].forms) = 2
    /\ resp.inline_admin_formsets[1].forms[1].errors = "name" :> <<"required">>
    /\ resp.inline_admin_formsets[1].forms[2].errors = "name" :> <<"unique">>
    /\ \A i \in 1..Len(resp.inline_admin_formsets[2].forms) :
          resp.inline_admin_formsets[2].forms[i].errors = NoErrors
    /\ r.errors = "name" :> <<"unique">>

====
